---- MODULE Spec2Model ----
(***************************************************************************)
(* Model of the Lr2021LoraPhy adapter (src/src/lib.rs): the RadioKind      *)
(* implementation that maps the generic LoRa PHY operations onto the       *)
(* LR2021 driver commands and decodes the chip's interrupt flags.          *)
(*                                                                         *)
(* A behaviour is one call into the adapter: Init is the adapter right     *)
(* after new() with a caller about to invoke one operation; the handler    *)
(* action runs the whole operation, drawing the driver's replies, and      *)
(* records every driver command it issued in cmds.                         *)
(***************************************************************************)
EXTENDS Integers, Sequences, FiniteSets, TLC

VARIABLES dio_irq, call, pc, cmds, result, slot

vars == <<dio_irq, call, pc, cmds, result, slot>>

(***************************** bounds **************************************)
NumDio == 2
MaxPreamble == 13
PowerSpan == 24
MaxSyncWord == 1
MaxRaw == 5

(************************* program constants *******************************)
I32Max == 2147483647
I32Min == (-2147483647) - 1
U16Max == 65535

(***************************** domains *************************************)
DioNums == 1..NumDio

SpreadingFactors == 5..12

Bandwidths == {7, 10, 15, 20, 31, 41, 62, 125, 250, 500}

CodingRates == {"_4_5", "_4_6", "_4_7", "_4_8"}

Frequencies == {433000000, 868000000}

RxModes ==
    {[k |-> "Single", timeout |-> t, rx_time |-> 0, sleep_time |-> 0] : t \in {0, 100}}
    \cup {[k |-> "Continuous", timeout |-> 0, rx_time |-> 0, sleep_time |-> 0]}
    \cup {[k |-> "DutyCycle", timeout |-> 0, rx_time |-> 10, sleep_time |-> 20]}

NoRx == [k |-> "-", timeout |-> 0, rx_time |-> 0, sleep_time |-> 0]

RadioModes ==
    {[m |-> n, rx |-> NoRx] :
        n \in {"Sleep", "Standby", "FrequencySynthesis", "Transmit", "ChannelActivityDetection"}}
    \cup {[m |-> "Receive", rx |-> r] : r \in {x \in RxModes : x.timeout # 100}}

NoMode == [m |-> "None", rx |-> NoRx]

IntrFlags == {"timeout", "tx_done", "rx_done", "header_err", "crc_error",
              "preamble_detected", "header_valid", "cad_done", "cad_detected"}

(* interrupt masks are kept symbolic: a mask is the set of the named       *)
(* IRQ_MASK_* constants or-ed together                                      *)
FullMask == {"IRQ_MASK_LORA_TXRX", "IRQ_MASK_TX_DONE", "IRQ_MASK_TIMEOUT",
             "IRQ_MASK_CAD_DONE", "IRQ_MASK_CAD_DETECTED", "other bits"}

(****************************** errors *************************************)
OpError(n) == [kind |-> "OpError", n |-> n]

RadioError(k) == [kind |-> k, n |-> 0]

NoErr == [kind |-> "-", n |-> 0]

Ok(v) == [ok |-> TRUE, err |-> NoErr, val |-> v]

Err(e) == [ok |-> FALSE, err |-> e, val |-> "-"]

(************************** pure functions *********************************)
(* LdroEn with the 250 kHz arm copied from the 125 kHz arm                  *)
LdroEn_Sf11At250(spreading_factor, bandwidth) ==
    CASE bandwidth = 125 -> spreading_factor = 11 \/ spreading_factor = 12
      [] bandwidth = 250 -> spreading_factor = 11 \/ spreading_factor = 12
      [] OTHER -> FALSE

LdroEn(spreading_factor, bandwidth) ==
    CASE bandwidth = 125 -> spreading_factor = 11 \/ spreading_factor = 12
      [] bandwidth = 250 -> spreading_factor = 12
      [] OTHER -> FALSE

BoolAsU8(b) == IF b THEN 1 ELSE 0

ModulationParams(spreading_factor, bandwidth, coding_rate, frequency_in_hz) ==
    [spreading_factor |-> spreading_factor,
     bandwidth |-> bandwidth,
     coding_rate |-> coding_rate,
     low_data_rate_optimize |-> BoolAsU8(LdroEn(spreading_factor, bandwidth)),
     frequency_in_hz |-> frequency_in_hz]

(* PreambleFloor with the SF6 test missing                                 *)
PreambleFloor_Sf5Only(preamble_length, spreading_factor) ==
    IF spreading_factor = 5 /\ preamble_length < 12
    THEN 12
    ELSE preamble_length

PreambleFloor(preamble_length, spreading_factor) ==
    IF (spreading_factor = 5 \/ spreading_factor = 6) /\ preamble_length < 12
    THEN 12
    ELSE preamble_length

PacketParams(preamble_length, implicit_header, payload_length, crc_on, iq_inverted, modulation_params) ==
    [preamble_length |-> PreambleFloor(preamble_length, modulation_params.spreading_factor),
     implicit_header |-> implicit_header,
     payload_length |-> payload_length,
     crc_on |-> crc_on,
     iq_inverted |-> iq_inverted]

Clamp(x, lo, hi) == IF x < lo THEN lo ELSE IF x > hi THEN hi ELSE x

AsI8(x) == LET m == x % 256 IN IF m >= 128 THEN m - 256 ELSE m

AsU16(x) == x % 65536

AsU8(x) == x % 256

(* TxPower narrowing to 8 bits before clamping                              *)
TxPower_CastFirst(output_power) == Clamp(AsI8(output_power), -9, 22)

TxPower(output_power) == AsI8(Clamp(output_power, -9, 22))

TxRamp(is_tx_prep) == IF is_tx_prep THEN "Ramp32u" ELSE "Ramp128u"

SfCode(sf) == [s \in SpreadingFactors |->
    CASE s = 5 -> "Sf5" [] s = 6 -> "Sf6" [] s = 7 -> "Sf7" [] s = 8 -> "Sf8"
      [] s = 9 -> "Sf9" [] s = 10 -> "Sf10" [] s = 11 -> "Sf11" [] s = 12 -> "Sf12"][sf]

BwCode(bw) == [b \in Bandwidths |->
    CASE b = 7 -> "Bw7" [] b = 10 -> "Bw10" [] b = 15 -> "Bw15" [] b = 20 -> "Bw20"
      [] b = 31 -> "Bw31" [] b = 41 -> "Bw41" [] b = 62 -> "Bw62" [] b = 125 -> "Bw125"
      [] b = 250 -> "Bw250" [] b = 500 -> "Bw500"][bw]

CrCode(cr) == [c \in CodingRates |->
    CASE c = "_4_5" -> "Cr1Ham45Si" [] c = "_4_6" -> "Cr2Ham23Si"
      [] c = "_4_7" -> "Cr3Ham47Si" [] c = "_4_8" -> "Cr4Ham12Si"][cr]

LoraModulationParams(mdltn_params) ==
    [sf |-> SfCode(mdltn_params.spreading_factor),
     bw |-> BwCode(mdltn_params.bandwidth),
     cr |-> CrCode(mdltn_params.coding_rate),
     ldro |-> IF mdltn_params.low_data_rate_optimize # 0 THEN "On" ELSE "Off"]

LoraPacketParams(pkt_params) ==
    [pbl_len |-> pkt_params.preamble_length,
     payload_len |-> pkt_params.payload_length,
     header_type |-> IF pkt_params.implicit_header THEN "Implicit" ELSE "Explicit",
     crc_en |-> pkt_params.crc_on,
     invert_iq |-> pkt_params.iq_inverted]

Freq4M(frequency_in_hz) == AsU16(frequency_in_hz \div 4194304)

RssiDb(raw) == -(raw \div 2)

SnrDb(raw) == (raw + 2) \div 4

(* IrqMask arming the bundled mask for Transmit as well                    *)
IrqMask_TxBundled(radio_mode) ==
    CASE radio_mode.m = "Standby" -> {"IRQ_MASK_LORA_TXRX"}
      [] radio_mode.m = "Transmit" -> {"IRQ_MASK_LORA_TXRX"}
      [] radio_mode.m = "Receive" -> {"IRQ_MASK_LORA_TXRX"}
      [] radio_mode.m = "ChannelActivityDetection" -> {"IRQ_MASK_CAD_DONE", "IRQ_MASK_CAD_DETECTED"}
      [] OTHER -> {}

IrqMask(radio_mode) ==
    CASE radio_mode.m = "Standby" -> {"IRQ_MASK_LORA_TXRX"}
      [] radio_mode.m = "Transmit" -> {"IRQ_MASK_TX_DONE", "IRQ_MASK_TIMEOUT"}
      [] radio_mode.m = "Receive" -> {"IRQ_MASK_LORA_TXRX"}
      [] radio_mode.m = "ChannelActivityDetection" -> {"IRQ_MASK_CAD_DONE", "IRQ_MASK_CAD_DETECTED"}
      [] OTHER -> {}

(************************** driver commands ********************************)
(* one driver call site: the command, its arguments, the source line of    *)
(* the call and the error the adapter maps a failure of it to              *)
Step(cmd, args, site, err) == [cmd |-> cmd, args |-> args, site |-> site, err |-> err]

(* the commands issued when the steps run in order and step failAt fails   *)
(* (failAt = 0: none fails): `?` and the tail call stop at the first error *)
Issued(steps, failAt, ret) ==
    [i \in 1..(IF failAt = 0 THEN Len(steps) ELSE failAt) |->
        [cmd |-> steps[i].cmd, args |-> steps[i].args, site |-> steps[i].site,
         ok |-> i # failAt, ret |-> IF i # failAt THEN ret[i] ELSE "-"]]

NoRet(steps) == [i \in 1..Len(steps) |-> "-"]

Outcome(steps, failAt, val) == IF failAt = 0 THEN Ok(val) ELSE Err(steps[failAt].err)

(* init_lora programming the sync word before selecting the packet type   *)
init_lora_steps_SyncFirst(sync_word) ==
    << Step("calib_fe", <<>>, 37, OpError(0)),
       Step("set_lora_syncword", sync_word, 39, OpError(2)),
       Step("set_packet_type", "Lora", 38, OpError(1)) >>

init_lora_steps(sync_word) ==
    << Step("calib_fe", <<>>, 37, OpError(0)),
       Step("set_packet_type", "Lora", 38, OpError(1)),
       Step("set_lora_syncword", sync_word, 39, OpError(2)) >>

reset_steps == << Step("reset", "-", 90, RadioError("Reset")) >>

ensure_ready_steps(mode) ==
    IF mode.m = "Sleep"
    THEN << Step("wake_up", "-", 96, RadioError("DIO1")) >>
    ELSE << Step("wait_ready", 0, 98, RadioError("DIO1")) >>

set_standby_steps == << Step("set_chip_mode", "StandbyXosc", 103, RadioError("SPI")) >>

set_sleep_steps(warm_start_if_possible) ==
    << Step("set_chip_mode", IF warm_start_if_possible THEN "DeepRetention" ELSE "DeepSleep",
            110, RadioError("SPI")) >>

set_tx_power_and_ramp_time_steps(output_power, is_tx_prep) ==
    << Step("set_tx_params", [pwr |-> TxPower(output_power), ramp |-> TxRamp(is_tx_prep)],
            128, RadioError("InvalidConfiguration")) >>

set_modulation_params_steps(mdltn_params) ==
    << Step("set_lora_modulation", LoraModulationParams(mdltn_params),
            162, RadioError("InvalidConfiguration")) >>

set_packet_params_steps(pkt_params) ==
    << Step("set_lora_packet", LoraPacketParams(pkt_params),
            174, RadioError("InvalidConfiguration")) >>

calibrate_image_steps(frequency_in_hz) ==
    << Step("calib_fe", <<Freq4M(frequency_in_hz)>>, 181, OpError(3)) >>

set_channel_steps(frequency_in_hz) ==
    << Step("set_rf", frequency_in_hz, 185, OpError(4)) >>

set_payload_steps(payload) ==
    << Step("wr_tx_fifo_from", payload, 189, OpError(5)) >>

do_tx_steps == << Step("set_tx", 0, 193, OpError(6)) >>

do_rx_steps(rx_mode) ==
    IF rx_mode.k = "DutyCycle"
    THEN << Step("set_rx_duty_cycle",
                 [rx_time |-> rx_mode.rx_time, sleep_time |-> rx_mode.sleep_time,
                  use_lora_cad |-> FALSE, dram_ret |-> 0],
                 199, OpError(7)) >>
    ELSE << Step("set_rx",
                 [timeout |-> IF rx_mode.k = "Single" THEN rx_mode.timeout ELSE "0xFFFFFFFF",
                  wait_ready |-> TRUE],
                 203, OpError(7)) >>

get_rx_payload_steps ==
    << Step("get_rx_pkt_len", "-", 209, OpError(8)),
       Step("rd_rx_fifo_to", "rx_buffer", 210, OpError(9)) >>

get_rx_packet_status_steps ==
    << Step("get_lora_packet_status", "-", 217, OpError(10)) >>

do_cad_steps(mdltn_params) ==
    set_modulation_params_steps(mdltn_params) \o
    << Step("set_lora_cad_params",
            [nb_symbols |-> 4, pbl_any |-> FALSE, pnr_delta |-> 9,
             exit_mode |-> "CadOnly", timeout |-> 0, det_peak |-> "None"],
            228, OpError(11)),
       Step("set_lora_cad", "-", 230, OpError(12)) >>

set_tx_continuous_wave_mode_steps ==
    << Step("set_tx_test", "Tone", 234, OpError(12)) >>

get_rssi_steps == << Step("get_rssi_inst", "-", 240, OpError(13)) >>

set_irq_params_steps(dio, radio_mode) ==
    << Step("set_dio_irq", [dio |-> dio, intr |-> IrqMask(radio_mode)], 254, OpError(16)) >>

await_irq_steps ==
    << Step("wait_for_rising_edge", "-", 258, RadioError("Irq")) >>

get_status_steps == << Step("get_status", "-", 267, OpError(15)) >>

clear_irq_status_steps ==
    << Step("clear_irqs", FullMask, 298, OpError(14)) >>

(*********************** interrupt flag decoding ***************************)
(* IrqDecode testing rx_done before the header and CRC error flags         *)
IrqDecode_RxDoneFirst(radio_mode, intr) ==
    CASE radio_mode.m = "Transmit" ->
            IF "tx_done" \in intr THEN "Done" ELSE "None"
      [] radio_mode.m = "Receive" ->
            IF "rx_done" \in intr THEN "Done"
            ELSE IF "header_err" \in intr \/ "crc_error" \in intr THEN "None"
            ELSE IF "preamble_detected" \in intr \/ "header_valid" \in intr
                 THEN "PreambleReceived"
            ELSE "None"
      [] radio_mode.m = "ChannelActivityDetection" ->
            IF "cad_done" \in intr THEN "Done" ELSE "None"
      [] OTHER -> "None"

(* the match on radio_mode of get_irq_state, reached with timeout clear    *)
IrqDecode(radio_mode, intr) ==
    CASE radio_mode.m = "Transmit" ->
            IF "tx_done" \in intr THEN "Done" ELSE "None"
      [] radio_mode.m = "Receive" ->
            IF "header_err" \in intr \/ "crc_error" \in intr THEN "None"
            ELSE IF "rx_done" \in intr THEN "Done"
            ELSE IF "preamble_detected" \in intr \/ "header_valid" \in intr
                 THEN "PreambleReceived"
            ELSE "None"
      [] radio_mode.m = "ChannelActivityDetection" ->
            IF "cad_done" \in intr THEN "Done" ELSE "None"
      [] OTHER -> "None"

(* GetIrqOutcome reporting the timeout only when the mode decode found     *)
(* nothing                                                                 *)
GetIrqOutcome_DecodeFirst(radio_mode, status) ==
    IF ~status.ok THEN Err(OpError(15))
    ELSE IF IrqDecode(radio_mode, status.intr) # "None"
         THEN Ok(IrqDecode(radio_mode, status.intr))
    ELSE IF "timeout" \in status.intr THEN Err(RadioError("TransmitTimeout"))
    ELSE Ok("None")

(* what get_irq_state returns for the driver's reply to get_status         *)
GetIrqOutcome(radio_mode, status) ==
    IF ~status.ok THEN Err(OpError(15))
    ELSE IF "timeout" \in status.intr THEN Err(RadioError("TransmitTimeout"))
    ELSE Ok(IrqDecode(radio_mode, status.intr))

(* CadSlot writing the flag in ChannelActivityDetection mode whether or    *)
(* not cad_done is set                                                     *)
CadSlot_AlwaysInCad(radio_mode, status, supplied, old) ==
    IF /\ status.ok
       /\ "timeout" \notin status.intr
       /\ radio_mode.m = "ChannelActivityDetection"
       /\ supplied
    THEN "cad_detected" \in status.intr
    ELSE old

(* the caller's cad_activity_detected after get_irq_state: written only in *)
(* the cad_done arm of the ChannelActivityDetection case, when supplied    *)
CadSlot(radio_mode, status, supplied, old) ==
    IF /\ status.ok
       /\ "timeout" \notin status.intr
       /\ radio_mode.m = "ChannelActivityDetection"
       /\ "cad_done" \in status.intr
       /\ supplied
    THEN "cad_detected" \in status.intr
    ELSE old

GetIrqLog(status) == Issued(get_status_steps, IF status.ok THEN 0 ELSE 1, <<status.intr>>)

(* ClearRequested as if the get step were propagated with `?`              *)
ClearRequested_SkipOnGetError(irq_state, clear_interrupts) == clear_interrupts /\ irq_state.ok

(* process_irq_event: whether the clear step runs, given the get result    *)
ClearRequested(irq_state, clear_interrupts) == clear_interrupts

ProcessIrqLog(irq_state, status, clear_interrupts, clearFail) ==
    GetIrqLog(status) \o
    (IF ClearRequested(irq_state, clear_interrupts)
     THEN Issued(clear_irq_status_steps, clearFail, NoRet(clear_irq_status_steps))
     ELSE <<>>)

ProcessIrqOutcome(irq_state, clear_interrupts, clearFail) ==
    IF ClearRequested(irq_state, clear_interrupts) /\ clearFail # 0
    THEN Err(clear_irq_status_steps[clearFail].err)
    ELSE irq_state

(******************************* calls *************************************)
Powers == ((-PowerSpan)..PowerSpan) \cup {-50, 100, 127, 128, 133, -128, -129, 261, I32Min, I32Max}

Preambles == (0..MaxPreamble) \cup {U16Max}

SyncWords == {18 + 34 * i : i \in 0..MaxSyncWord}

RawLens == (0..MaxRaw) \cup {255, 256, 300}

RawRssi == (0..MaxRaw) \cup {20, 255}

RawSnr == ((-MaxRaw)..MaxRaw) \cup {-32, 40}

Payloads == {<<>>, <<1, 2, 3>>}

ModParamSamples ==
    {ModulationParams(sf, bw, "_4_5", 868000000) : sf \in SpreadingFactors, bw \in {125, 500}}

PktParamSamples ==
    {PacketParams(p, h, 16, TRUE, FALSE, ModulationParams(7, 125, "_4_5", 868000000)) :
        p \in {8, U16Max}, h \in BOOLEAN}

StatusReplies ==
    {[ok |-> FALSE, intr |-> {}]} \cup {[ok |-> TRUE, intr |-> f] : f \in SUBSET IntrFlags}

Calls ==
    {[op |-> "init_lora", sync_word |-> w] : w \in SyncWords}
    \cup {[op |-> "create_modulation_params", spreading_factor |-> sf, bandwidth |-> bw,
           coding_rate |-> cr, frequency_in_hz |-> f] :
            sf \in SpreadingFactors, bw \in Bandwidths, cr \in CodingRates, f \in Frequencies}
    \cup {[op |-> "create_packet_params", preamble_length |-> p, implicit_header |-> h,
           payload_length |-> l, crc_on |-> c, iq_inverted |-> q, modulation_params |-> mp] :
            p \in Preambles, h \in BOOLEAN, l \in {0, 255}, c \in BOOLEAN, q \in BOOLEAN,
            mp \in {x \in ModParamSamples : x.bandwidth = 125}}
    \cup {[op |-> o] : o \in {"reset", "set_standby", "do_tx", "get_rx_payload",
                              "get_rx_packet_status", "set_tx_continuous_wave_mode",
                              "get_rssi", "await_irq", "clear_irq_status"}}
    \cup {[op |-> "ensure_ready", mode |-> m] : m \in RadioModes}
    \cup {[op |-> "set_sleep", warm_start_if_possible |-> w] : w \in BOOLEAN}
    \cup {[op |-> "set_tx_rx_buffer_base_address", tx_base_addr |-> t, rx_base_addr |-> r] :
            t \in {0, 128}, r \in {0, 128}}
    \cup {[op |-> "set_tx_power_and_ramp_time", output_power |-> pw, mdltn_params |-> mp,
           is_tx_prep |-> prep] :
            pw \in Powers, prep \in BOOLEAN,
            mp \in {{}} \cup {{x} : x \in {y \in ModParamSamples : y.spreading_factor \in {7, 12}}}}
    \cup {[op |-> "set_modulation_params", mdltn_params |-> ModulationParams(sf, bw, cr, 868000000)] :
            sf \in SpreadingFactors, bw \in Bandwidths, cr \in CodingRates}
    \cup {[op |-> "set_packet_params", pkt_params |-> pp] : pp \in PktParamSamples}
    \cup {[op |-> o, frequency_in_hz |-> f] :
            o \in {"calibrate_image", "set_channel"}, f \in Frequencies}
    \cup {[op |-> "set_payload", payload |-> b] : b \in Payloads}
    \cup {[op |-> "do_rx", rx_mode |-> r] : r \in RxModes}
    \cup {[op |-> "do_cad", mdltn_params |-> mp] : mp \in ModParamSamples}
    \cup {[op |-> "set_irq_params", radio_mode |-> m] : m \in RadioModes \cup {NoMode}}
    \cup {[op |-> "get_irq_state", radio_mode |-> m, cad_supplied |-> s] :
            m \in RadioModes, s \in BOOLEAN}
    \cup {[op |-> "process_irq_event", radio_mode |-> m, cad_supplied |-> s,
           clear_interrupts |-> c] :
            m \in RadioModes, s \in BOOLEAN, c \in BOOLEAN}

IrqOps == {"get_irq_state", "process_irq_event"}

Pending == [ok |-> FALSE, err |-> NoErr, val |-> "pending"]

(* the adapter as new() leaves it, the caller about to make one call       *)
Init ==
    /\ dio_irq \in DioNums
    /\ call \in Calls
    /\ pc = "called"
    /\ cmds = <<>>
    /\ result = Pending
    /\ slot \in (IF call.op \in IrqOps THEN BOOLEAN ELSE {FALSE})

Return(log, res) ==
    /\ pc' = "returned"
    /\ cmds' = log
    /\ result' = res
    /\ UNCHANGED <<dio_irq, call>>

Called(op) == pc = "called" /\ call.op = op

(* an operation that runs its driver steps in order and stops at the first *)
(* failure; val is what it returns when every step succeeded               *)
RunSteps(steps, val) ==
    /\ \E failAt \in 0..Len(steps) :
          Return(Issued(steps, failAt, NoRet(steps)), Outcome(steps, failAt, val))
    /\ UNCHANGED slot

(****************************** operations *********************************)
init_lora ==
    /\ Called("init_lora")
    /\ RunSteps(init_lora_steps(call.sync_word), "unit")

create_modulation_params ==
    /\ Called("create_modulation_params")
    /\ Return(<<>>, Ok(ModulationParams(call.spreading_factor, call.bandwidth,
                                        call.coding_rate, call.frequency_in_hz)))
    /\ UNCHANGED slot

create_packet_params ==
    /\ Called("create_packet_params")
    /\ Return(<<>>, Ok(PacketParams(call.preamble_length, call.implicit_header,
                                    call.payload_length, call.crc_on, call.iq_inverted,
                                    call.modulation_params)))
    /\ UNCHANGED slot

reset ==
    /\ Called("reset")
    /\ RunSteps(reset_steps, "unit")

ensure_ready ==
    /\ Called("ensure_ready")
    /\ RunSteps(ensure_ready_steps(call.mode), "unit")

set_standby ==
    /\ Called("set_standby")
    /\ RunSteps(set_standby_steps, "unit")

set_sleep ==
    /\ Called("set_sleep")
    /\ RunSteps(set_sleep_steps(call.warm_start_if_possible), "unit")

set_tx_rx_buffer_base_address ==
    /\ Called("set_tx_rx_buffer_base_address")
    /\ Return(<<>>, Ok("unit"))
    /\ UNCHANGED slot

set_tx_power_and_ramp_time ==
    /\ Called("set_tx_power_and_ramp_time")
    /\ RunSteps(set_tx_power_and_ramp_time_steps(call.output_power, call.is_tx_prep), "unit")

set_modulation_params ==
    /\ Called("set_modulation_params")
    /\ RunSteps(set_modulation_params_steps(call.mdltn_params), "unit")

set_packet_params ==
    /\ Called("set_packet_params")
    /\ RunSteps(set_packet_params_steps(call.pkt_params), "unit")

calibrate_image ==
    /\ Called("calibrate_image")
    /\ RunSteps(calibrate_image_steps(call.frequency_in_hz), "unit")

set_channel ==
    /\ Called("set_channel")
    /\ RunSteps(set_channel_steps(call.frequency_in_hz), "unit")

set_payload ==
    /\ Called("set_payload")
    /\ RunSteps(set_payload_steps(call.payload), "unit")

do_tx ==
    /\ Called("do_tx")
    /\ RunSteps(do_tx_steps, "unit")

do_rx ==
    /\ Called("do_rx")
    /\ RunSteps(do_rx_steps(call.rx_mode), "unit")

get_rx_payload ==
    /\ Called("get_rx_payload")
    /\ \E failAt \in 0..Len(get_rx_payload_steps), pkt_len \in RawLens :
          Return(Issued(get_rx_payload_steps, failAt, <<pkt_len, "-">>),
                 Outcome(get_rx_payload_steps, failAt, AsU8(pkt_len)))
    /\ UNCHANGED slot

get_rx_packet_status ==
    /\ Called("get_rx_packet_status")
    /\ \E failAt \in 0..Len(get_rx_packet_status_steps), rssi \in RawRssi, snr \in RawSnr :
          Return(Issued(get_rx_packet_status_steps, failAt, <<[rssi_pkt |-> rssi, snr_pkt |-> snr]>>),
                 Outcome(get_rx_packet_status_steps, failAt,
                         [rssi |-> RssiDb(rssi), snr |-> SnrDb(snr)]))
    /\ UNCHANGED slot

do_cad ==
    /\ Called("do_cad")
    /\ RunSteps(do_cad_steps(call.mdltn_params), "unit")

set_tx_continuous_wave_mode ==
    /\ Called("set_tx_continuous_wave_mode")
    /\ RunSteps(set_tx_continuous_wave_mode_steps, "unit")

get_rssi ==
    /\ Called("get_rssi")
    /\ \E failAt \in 0..Len(get_rssi_steps), rssi \in RawRssi :
          Return(Issued(get_rssi_steps, failAt, <<rssi>>),
                 Outcome(get_rssi_steps, failAt, RssiDb(rssi)))
    /\ UNCHANGED slot

set_irq_params ==
    /\ Called("set_irq_params")
    /\ RunSteps(set_irq_params_steps(dio_irq, call.radio_mode), "unit")

await_irq ==
    /\ Called("await_irq")
    /\ RunSteps(await_irq_steps, "unit")

get_irq_state ==
    /\ Called("get_irq_state")
    /\ \E status \in StatusReplies :
          /\ Return(GetIrqLog(status), GetIrqOutcome(call.radio_mode, status))
          /\ slot' = CadSlot(call.radio_mode, status, call.cad_supplied, slot)

clear_irq_status ==
    /\ Called("clear_irq_status")
    /\ RunSteps(clear_irq_status_steps, "unit")

process_irq_event ==
    /\ Called("process_irq_event")
    /\ \E status \in StatusReplies, clearFail \in 0..Len(clear_irq_status_steps) :
          LET irq_state == GetIrqOutcome(call.radio_mode, status) IN
          /\ Return(ProcessIrqLog(irq_state, status, call.clear_interrupts, clearFail),
                    ProcessIrqOutcome(irq_state, call.clear_interrupts, clearFail))
          /\ slot' = CadSlot(call.radio_mode, status, call.cad_supplied, slot)

Next ==
    \/ init_lora
    \/ create_modulation_params
    \/ create_packet_params
    \/ reset
    \/ ensure_ready
    \/ set_standby
    \/ set_sleep
    \/ set_tx_rx_buffer_base_address
    \/ set_tx_power_and_ramp_time
    \/ set_modulation_params
    \/ set_packet_params
    \/ calibrate_image
    \/ set_channel
    \/ set_payload
    \/ do_tx
    \/ do_rx
    \/ get_rx_payload
    \/ get_rx_packet_status
    \/ do_cad
    \/ set_tx_continuous_wave_mode
    \/ get_rssi
    \/ set_irq_params
    \/ await_irq
    \/ get_irq_state
    \/ clear_irq_status
    \/ process_irq_event

Spec == Init /\ [][Next]_vars

(***************************** call sites **********************************)
SitesOf(steps) == {[site |-> steps[i].site, err |-> steps[i].err] : i \in 1..Len(steps)}

(* every driver call site of the adapter with the error its failure maps to *)
CallSites ==
    SitesOf(init_lora_steps(18)) \cup SitesOf(reset_steps)
    \cup UNION {SitesOf(ensure_ready_steps(m)) : m \in RadioModes}
    \cup SitesOf(set_standby_steps) \cup SitesOf(set_sleep_steps(TRUE))
    \cup SitesOf(set_tx_power_and_ramp_time_steps(0, TRUE))
    \cup UNION {SitesOf(set_packet_params_steps(pp)) : pp \in PktParamSamples}
    \cup SitesOf(calibrate_image_steps(868000000)) \cup SitesOf(set_channel_steps(868000000))
    \cup SitesOf(set_payload_steps(<<>>)) \cup SitesOf(do_tx_steps)
    \cup UNION {SitesOf(do_rx_steps(r)) : r \in RxModes}
    \cup SitesOf(get_rx_payload_steps) \cup SitesOf(get_rx_packet_status_steps)
    \cup UNION {SitesOf(do_cad_steps(mp)) : mp \in ModParamSamples}
    \cup SitesOf(set_tx_continuous_wave_mode_steps) \cup SitesOf(get_rssi_steps)
    \cup UNION {SitesOf(set_irq_params_steps(d, m)) : d \in DioNums, m \in RadioModes}
    \cup SitesOf(await_irq_steps) \cup SitesOf(get_status_steps)
    \cup SitesOf(clear_irq_status_steps)

(******************************* claims ************************************)
Returned(op) == pc = "returned" /\ call.op = op

FailedSites == {cmds[i].site : i \in {j \in 1..Len(cmds) : ~cmds[j].ok}}

CmdNames == [i \in 1..Len(cmds) |-> cmds[i].cmd]

(* the get_irq_state step failed: the status read failed or it reported    *)
(* the timeout flag                                                        *)
GetFailed == ~cmds[1].ok \/ "timeout" \in cmds[1].ret

TimeoutErr == Err(RadioError("TransmitTimeout"))

(* C1 as stated: in process_irq_event called with clear_interrupts = true, *)
(* when the get_irq_state step fails no clear-interrupts command is issued *)
(* to the driver during that call.                                         *)
C1_ClearSkippedOnGetFailure ==
    (Returned("process_irq_event") /\ call.clear_interrupts /\ GetFailed)
        => \A i \in 1..Len(cmds) : cmds[i].cmd # "clear_irqs"

(* C1 amended: in process_irq_event called with clear_interrupts = true,   *)
(* when the get_irq_state step fails the clear step still runs: exactly    *)
(* one full-mask clear-interrupts command is issued, after the status      *)
(* read; the call returns the get step's error when the clear succeeds and *)
(* numbered operation error 14 when the clear fails.                       *)
C1_ClearIssuedOnGetFailure ==
    (Returned("process_irq_event") /\ call.clear_interrupts /\ GetFailed)
        => /\ CmdNames = <<"get_status", "clear_irqs">>
           /\ cmds[2].args = FullMask
           /\ cmds[2].ok =>
                result = (IF ~cmds[1].ok THEN Err(OpError(15)) ELSE TimeoutErr)
           /\ ~cmds[2].ok => result = Err(OpError(14))

C1_Witness ==
    /\ Returned("process_irq_event")
    /\ call.clear_interrupts
    /\ cmds[1].ok /\ "timeout" \in cmds[1].ret
    /\ Len(cmds) = 2 /\ cmds[2].cmd = "clear_irqs" /\ cmds[2].ok
    /\ result = TimeoutErr

(* C2: for every radio mode and every combination of the other flags, a    *)
(* successful status read with the timeout flag set makes get_irq_state    *)
(* return the TransmitTimeout error, never a state; in Transmit mode with  *)
(* timeout clear and tx-done set the result is Done.                       *)
C2_TimeoutIsTerminal ==
    (Returned("get_irq_state") /\ cmds[1].ok)
        => /\ "timeout" \in cmds[1].ret =>
                ~result.ok /\ result.err.kind = "TransmitTimeout"
           /\ (call.radio_mode.m = "Transmit" /\ "timeout" \notin cmds[1].ret
                    /\ "tx_done" \in cmds[1].ret) =>
                result.ok /\ result.val = "Done"

C2_Witness ==
    /\ Returned("get_irq_state")
    /\ call.radio_mode.m = "Transmit"
    /\ cmds[1].ok /\ {"timeout", "tx_done"} \subseteq cmds[1].ret
    /\ result = TimeoutErr

(* C3: in Receive mode with the timeout flag clear, get_irq_state decodes  *)
(* by strict priority: header-error or CRC-error gives no state; else      *)
(* rx-done gives Done; else preamble-detected or header-valid gives        *)
(* PreambleReceived; else no state. In Receive mode an error comes only    *)
(* from the timeout flag or a failed status read.                          *)
C3_ReceivePriority ==
    (Returned("get_irq_state") /\ call.radio_mode.m = "Receive")
        => LET f == cmds[1].ret
               bad == "header_err" \in f \/ "crc_error" \in f
               pre == "preamble_detected" \in f \/ "header_valid" \in f
           IN /\ ~result.ok => (~cmds[1].ok \/ "timeout" \in f)
              /\ (cmds[1].ok /\ "timeout" \notin f) =>
                    /\ result.ok
                    /\ bad => result.val = "None"
                    /\ (~bad /\ "rx_done" \in f) => result.val = "Done"
                    /\ (~bad /\ "rx_done" \notin f /\ pre) => result.val = "PreambleReceived"
                    /\ (~bad /\ "rx_done" \notin f /\ ~pre) => result.val = "None"

C3_Witness ==
    /\ Returned("get_irq_state")
    /\ call.radio_mode.m = "Receive"
    /\ cmds[1].ok /\ cmds[1].ret = {"crc_error", "rx_done", "header_valid"}
    /\ result = Ok("None")

(* C4: in ChannelActivityDetection mode with the timeout flag clear,       *)
(* get_irq_state returns Done iff cad-done is set; the caller-supplied     *)
(* cad-detected slot is written, with the cad-detected flag, exactly when  *)
(* that result is Done, and in every other outcome (cad-done clear,        *)
(* timeout set, status read failed, any other mode) the slot keeps the     *)
(* value it had before the call.                                           *)
C4_CadSlotFrame ==
    [][(pc = "called" /\ call.op = "get_irq_state" /\ pc' = "returned") =>
        LET st == cmds'[1]
            cad == call.radio_mode.m = "ChannelActivityDetection"
            done == cad /\ result'.ok /\ result'.val = "Done"
        IN /\ (cad /\ st.ok /\ "timeout" \notin st.ret) =>
                  /\ result'.ok
                  /\ result'.val = "Done" <=> "cad_done" \in st.ret
           /\ (done /\ call.cad_supplied) => slot' = ("cad_detected" \in st.ret)
           /\ ~(done /\ call.cad_supplied) => slot' = slot
      ]_vars

C4_Witness ==
    /\ Returned("get_irq_state")
    /\ call.radio_mode.m = "ChannelActivityDetection"
    /\ call.cad_supplied
    /\ cmds[1].ok /\ {"cad_done", "cad_detected"} \subseteq cmds[1].ret
    /\ result = Ok("Done")
    /\ slot = TRUE

(* C5: init_lora issues front-end calibration with an empty frequency      *)
(* list, then select LoRa packet type, then program the sync word, in      *)
(* that order; it stops at the first failing step, issuing nothing after   *)
(* it and nothing twice, and returns numbered operation error 0, 1 or 2    *)
(* for the step that failed; it succeeds only after all three succeeded.   *)
C5_InitLoraOrder ==
    Returned("init_lora")
        => LET n == Len(cmds)
               order == <<"calib_fe", "set_packet_type", "set_lora_syncword">>
           IN /\ n \in 1..3
              /\ CmdNames = SubSeq(order, 1, n)
              /\ cmds[1].args = <<>>
              /\ n >= 2 => cmds[2].args = "Lora"
              /\ n >= 3 => cmds[3].args = call.sync_word
              /\ \A i \in 1..(n - 1) : cmds[i].ok
              /\ result.ok <=> (n = 3 /\ cmds[3].ok)
              /\ ~result.ok => (~cmds[n].ok /\ result.err = OpError(n - 1))

C5_Witness ==
    /\ Returned("init_lora")
    /\ CmdNames = <<"calib_fe", "set_packet_type">>
    /\ cmds[1].ok /\ ~cmds[2].ok
    /\ result = Err(OpError(1))

(* C6: numbered operation errors are a distinguishable tag per call site:  *)
(* when an operation returns OpError(n), every driver call site of the     *)
(* adapter that maps its failure to OpError(n) is a step that failed in    *)
(* this call, so the number identifies exactly one failing driver step.    *)
C6_OpErrorIdentifiesSite ==
    (pc = "returned" /\ ~result.ok /\ result.err.kind = "OpError")
        => \A s \in CallSites : s.err = result.err => s.site \in FailedSites

(* C7: for all spreading factors and bandwidths, any coding rate and       *)
(* frequency, create_modulation_params succeeds with the low-data-rate     *)
(* flag 1 iff (125 kHz and SF 11 or 12) or (250 kHz and SF 12), else 0,    *)
(* and the other four fields as given; the output is a function of the     *)
(* inputs.                                                                 *)
C7_LdroRule ==
    Returned("create_modulation_params")
        => LET on == \/ (call.bandwidth = 125 /\ call.spreading_factor \in {11, 12})
                     \/ (call.bandwidth = 250 /\ call.spreading_factor = 12)
           IN /\ cmds = <<>>
              /\ result = Ok([spreading_factor |-> call.spreading_factor,
                              bandwidth |-> call.bandwidth,
                              coding_rate |-> call.coding_rate,
                              low_data_rate_optimize |-> IF on THEN 1 ELSE 0,
                              frequency_in_hz |-> call.frequency_in_hz])

C7_Witness ==
    /\ Returned("create_modulation_params")
    /\ call.bandwidth = 250 /\ call.spreading_factor = 12
    /\ result.ok /\ result.val.low_data_rate_optimize = 1

(* C8: create_packet_params returns preamble length max(input, 12) when    *)
(* the modulation parameters' spreading factor is SF5 or SF6 and the       *)
(* input preamble length for every other spreading factor; the header     *)
(* flag, payload length, CRC flag and IQ-inversion flag are unchanged.     *)
C8_PreambleFloor ==
    Returned("create_packet_params")
        => LET p == call.preamble_length
               low == call.modulation_params.spreading_factor \in {5, 6}
           IN /\ cmds = <<>>
              /\ result = Ok([preamble_length |-> IF low /\ 12 > p THEN 12 ELSE p,
                              implicit_header |-> call.implicit_header,
                              payload_length |-> call.payload_length,
                              crc_on |-> call.crc_on,
                              iq_inverted |-> call.iq_inverted])

C8_Witness ==
    /\ Returned("create_packet_params")
    /\ call.modulation_params.spreading_factor = 6
    /\ call.preamble_length = 0
    /\ result.ok /\ result.val.preamble_length = 12

(* C9: for every requested power, set_tx_power_and_ramp_time programs the  *)
(* driver with min(max(power, -9), 22), a value within -9..22 that the     *)
(* narrowing to 8 bits leaves unchanged, and with the short ramp when      *)
(* is_tx_prep is true and the longer default ramp otherwise, whatever the  *)
(* power and the modulation parameters argument.                           *)
C9_PowerClamp ==
    Returned("set_tx_power_and_ramp_time")
        => LET p == call.output_power
               lo == IF p > -9 THEN p ELSE -9
               want == IF lo < 22 THEN lo ELSE 22
           IN /\ CmdNames = <<"set_tx_params">>
              /\ cmds[1].args.pwr = want
              /\ cmds[1].args.pwr \in (-9)..22
              /\ cmds[1].args.ramp = (IF call.is_tx_prep THEN "Ramp32u" ELSE "Ramp128u")

C9_Witness ==
    /\ Returned("set_tx_power_and_ramp_time")
    /\ call.output_power = I32Max
    /\ call.mdltn_params # {}
    /\ cmds[1].args = [pwr |-> 22, ramp |-> "Ramp32u"]

(* C10: set_irq_params issues exactly one mask-programming command, for    *)
(* the adapter's own dio_irq, which no operation ever changes; the mask    *)
(* depends on the target mode only: the combined LoRa TX/RX mask for       *)
(* Standby and Receive with any sub-mode, TX-done and Timeout for          *)
(* Transmit, CAD-done and CAD-detected for ChannelActivityDetection, the   *)
(* empty mask for Sleep, any other mode or no mode; a driver failure is    *)
(* returned as numbered operation error 16.                                *)
C10_IrqMask ==
    /\ [](Returned("set_irq_params")
            => LET m == call.radio_mode.m
               IN /\ CmdNames = <<"set_dio_irq">>
                  /\ cmds[1].args.dio = dio_irq
                  /\ m \in {"Standby", "Receive"} =>
                        cmds[1].args.intr = {"IRQ_MASK_LORA_TXRX"}
                  /\ m = "Transmit" =>
                        cmds[1].args.intr = {"IRQ_MASK_TX_DONE", "IRQ_MASK_TIMEOUT"}
                  /\ m = "ChannelActivityDetection" =>
                        cmds[1].args.intr = {"IRQ_MASK_CAD_DONE", "IRQ_MASK_CAD_DETECTED"}
                  /\ m \notin {"Standby", "Receive", "Transmit", "ChannelActivityDetection"} =>
                        cmds[1].args.intr = {}
                  /\ result = (IF cmds[1].ok THEN Ok("unit") ELSE Err(OpError(16))))
    /\ [][dio_irq' = dio_irq]_vars

C10_Witness ==
    /\ Returned("set_irq_params")
    /\ call.radio_mode.m = "Transmit"
    /\ dio_irq = NumDio
    /\ cmds[1].ok
    /\ cmds[1].args = [dio |-> NumDio, intr |-> {"IRQ_MASK_TX_DONE", "IRQ_MASK_TIMEOUT"}]

====
